---------------------------- MODULE Spec2Model ----------------------------
(***************************************************************************)
(* The chunked transfer relay of the Telegram -> Wasabi bots.              *)
(*                                                                         *)
(*  Spec       WasabiClient.upload_from_stream / _multipart_upload         *)
(*             (src/wasabi_client.py), one invocation driven against an    *)
(*             awaitable source stream and the object store.  The stream   *)
(*             and the store are the environment: every awaited call may   *)
(*             return or raise, and the task awaiting it may be cancelled. *)
(*  SpecBot    TelegramWasabiBot.file_handler / handle_direct_upload       *)
(*             (src/telegram_bot.py), one asyncio task per media message.  *)
(*  SpecMedia  handle_media_files (src/bot.py), one handler run per media  *)
(*             message.                                                    *)
(*  SpecKeys   BotUtils.generate_file_name (src/utils.py) and the default  *)
(*             object name of upload_from_stream, called repeatedly.       *)
(*  SpecXfer   AsyncWasabiStorage.upload_file (src/bot.py), one invocation *)
(*             with the transfer threads of s3_client.upload_file.         *)
(*  SpecProg   ProgressTracker.update_progress (src/bot.py), called       *)
(*             repeatedly on one tracker while the clock advances.         *)
(*  SpecCmd    download_handler (src/telegram_bot.py), one handler run per *)
(*             /download command.                                          *)
(*  SpecArrivals  SpecBot with only the first NumArrivals media messages.  *)
(*                                                                         *)
(* A byte string is modelled by its length.  A coroutine's position is the *)
(* awaited call it is suspended in: pc = "mp_part" means upload_part has   *)
(* been invoked and has not returned yet.                                  *)
(***************************************************************************)
EXTENDS Integers, Sequences, FiniteSets, TLC

(* ----------------------------- bounds --------------------------------- *)
\* Largest source stream / declared size, in bytes.
MaxSize == 5
\* Number of media messages that arrive at telegram_bot.py.
NumTasks == 4
\* Number of media messages that arrive at bot.py.
NumMsgs == 2
\* Longest display name of a file, in characters.
MaxNameLen == 2
\* Number of object names generated.
NumKeys == 3
\* Seconds that pass while the names are generated.
MaxClock == 1
\* Number of /download commands that arrive at telegram_bot.py.
NumCmds == 2
\* Number of media messages that arrive in the runs that follow the task set.
NumArrivals == 2
\* Size of the file whose progress is tracked, in bytes.
MaxTotal == 25
\* Largest growth of `current` between two progress calls short of the end.
MaxStep == 2
\* Number of calls of update_progress.
MaxCalls == 3
\* Seconds that pass while the progress is tracked.
MaxElapsed == 3

(* ------------------------- configuration ------------------------------ *)
\* config.CHUNK_SIZE: multipart threshold and part size (wasabi_client.py:42,73).
CHUNK_SIZE == 2
\* config.MAX_FILE_SIZE: the size limit (utils.py:16, bot.py:424).
MAX_FILE_SIZE == 3
\* config.CONCURRENT_TRANSFERS: max_concurrency of the transfer (bot.py:72).
CONCURRENT_TRANSFERS == 2
\* Config.MAX_CONCURRENT_DOWNLOADS default (config.py:32).
MAX_CONCURRENT_DOWNLOADS == 3
\* retries={'max_attempts': 3, ...} of the store client (wasabi_client.py:15).
max_attempts == 3
\* `current_time - self.last_update < 2.0` (bot.py:251).
THROTTLE_SECONDS == 2
\* `abs(percentage - self.last_percentage) < 5` (bot.py:252).
SIGNIFICANT_PERCENT == 5

\* Python's None for an undeclared file_size.
None == -1

Min(a, b) == IF a < b THEN a ELSE b

\* ceil(a / b) for b > 0.
CeilDiv(a, b) == (a + b - 1) \div b

VARIABLES
    \* ---- WasabiClient.upload_from_stream (one invocation) ----
    pc,           \* awaited call the coroutine is suspended in
    file_size,    \* argument file_size (declared size) or None
    stream,       \* bytes the source stream holds in total
    pos,          \* bytes read from the stream so far
    chunk,        \* length of the chunk last read
    parts,        \* local list `parts` of [ETag, PartNumber]
    part_number,  \* local part_number
    session,      \* store side: state of the multipart session (UploadId)
    storeParts,   \* store side: PartNumber -> byte length of the stored part
    stored,       \* store side: size of the object under object_name, or None
    calls,        \* how often each store operation was invoked
    completeArg,  \* MultipartUpload.Parts passed to complete_multipart_upload
    returned,     \* store operations that returned successfully
    outcome,      \* how upload_from_stream ended
    failedAt,     \* the awaited call whose exception started the unwinding
    error,        \* the call whose exception leaves upload_from_stream
    path,         \* branch taken at wasabi_client.py:42
    retries,      \* PartNumber -> re-sends of its upload_part by the client
    \* ---- TelegramWasabiBot (telegram_bot.py) ----
    tpc,          \* task -> awaited call of handle_direct_upload
    tsize,        \* task -> event.message.media.document.size
    tmsg,         \* task -> text last shown in the status message
    tops,         \* task -> operations performed for it (download invoked,
                  \*         file downloaded, store upload)
    theld,        \* task -> bytes of the file the task holds in memory
    upload_tasks, \* self.upload_tasks
    \* ---- handle_media_files (bot.py) ----
    mpc,          \* message -> awaited call of handle_media_files
    mkind,        \* message -> media type
    msize,        \* message -> file_size of the media
    mmsg,         \* message -> text last replied
    mops,         \* message -> operations performed for it
    \* ---- object names (utils.py, wasabi_client.py:28-29) ----
    keys,         \* object names generated so far, in order
    clock,        \* int(time.time())
    drawn,        \* number of uuid.uuid4() values drawn so far
    \* ---- AsyncWasabiStorage.upload_file (bot.py, one invocation) ----
    upc,          \* position of upload_file
    ufile,        \* os.path.getsize(file_path), None if the file is missing
    upending,     \* parts no transfer thread has taken yet
    uworker,      \* transfer thread -> part it is sending, 0 if idle
    ulogged,      \* bytes_transferred of the latest callback call, or None
    uresult,      \* value upload_file returned, or the exception it raised
    uthread,      \* executor thread that runs _upload_file_sync
    \* ---- ProgressTracker (bot.py, one tracker) ----
    ppc,          \* position of update_progress
    ptotal,       \* argument total of the calls (None: absent, 0: unknown)
    pcurrent,     \* argument current of the latest call
    pcalls,       \* number of calls of update_progress so far
    now,          \* time.time() / datetime.now(), in seconds
    start_time,   \* self.start_time
    last_update,  \* self.last_update
    last_percentage, \* self.last_percentage, in units of 1/total percent
    presult,      \* how the latest call of update_progress went
    sent,         \* notifications attempted (message.edit_text), in order
    \* ---- download_handler (telegram_bot.py) ----
    dpc,          \* command -> position of download_handler
    dexists,      \* command -> the requested key exists in the store
    dsize,        \* command -> size_info of the reply
    dmsg,         \* command -> text last replied
    loop_thread   \* command whose store call runs on the event-loop thread

engineVars == <<pc, file_size, stream, pos, chunk, parts, part_number, session,
                storeParts, stored, calls, completeArg, returned, outcome,
                failedAt, error, path, retries>>
botVars == <<tpc, tsize, tmsg, tops, theld, upload_tasks>>
mediaVars == <<mpc, mkind, msize, mmsg, mops>>
keyVars == <<keys, clock, drawn>>
xferVars == <<upc, ufile, upending, uworker, ulogged, uresult, uthread>>
progVars == <<ppc, ptotal, pcurrent, pcalls, now, start_time, last_update,
              last_percentage, presult, sent>>
cmdVars == <<dpc, dexists, dsize, dmsg, loop_thread>>
vars == <<engineVars, botVars, mediaVars, keyVars, xferVars, progVars,
          cmdVars>>

(* ===================================================================== *)
(*  WasabiClient.upload_from_stream / _multipart_upload                   *)
(* ===================================================================== *)

\* The awaited calls a coroutine of upload_from_stream can be suspended in.
AwaitPoints == {"ss_read", "ss_put", "mp_create", "mp_read", "mp_part",
                "mp_complete", "mp_abort"}

NoCalls == [create |-> 0, part |-> 0, complete |-> 0, abort |-> 0, put |-> 0]

\* The state before upload_from_stream has been entered.
EngineFresh ==
    /\ pos = 0 /\ chunk = 0 /\ parts = <<>> /\ part_number = 0
    /\ session = "NoSession" /\ storeParts = <<>> /\ stored = None
    /\ calls = NoCalls /\ completeArg = <<>> /\ returned = {}
    /\ outcome = "running" /\ failedAt = "none" /\ error = "none"
    /\ path = "none" /\ retries = <<>>

\* upload_from_stream is never entered (the handler specifications).
EngineIdle ==
    /\ pc = "idle" /\ file_size = 0 /\ stream = 0
    /\ EngineFresh

\* `file_size > config.CHUNK_SIZE` (the first variant is the faulty `>=`; so
\* are the first variants of the three definitions that follow)
UseMultipart_atThreshold(size) == size >= CHUNK_SIZE

UseMultipart(size) == size > CHUNK_SIZE

\* `await file_stream.read(config.CHUNK_SIZE)` on a stream with `remaining`
\* bytes left: a full chunk until the data runs out, then b''.
ReadChunk_short(remaining) == Min(CHUNK_SIZE - 1, remaining)

ReadChunk(remaining) == Min(CHUNK_SIZE, remaining)

\* `parts.append({'ETag': part['ETag'], 'PartNumber': part_number})`
AppendPart_front(list, etag, n) == <<[ETag |-> etag, PartNumber |-> n]>> \o list

AppendPart(list, etag, n) == Append(list, [ETag |-> etag, PartNumber |-> n])

\* `part_number += 1`
NextPartNumber_same(n) == n

NextPartNumber(n) == n + 1

\* The ETag the store answers for a part: a digest of the body, here the
\* body's length.
RECURSIVE SumETag(_)
SumETag(list) ==
    IF list = <<>> THEN 0 ELSE Head(list).ETag + SumETag(Tail(list))

\* An exception leaves upload_from_stream: `except Exception: print; raise`
\* (wasabi_client.py:54-56).
Raise(where) ==
    /\ pc' = "done"
    /\ outcome' = "raised"
    /\ failedAt' = where
    /\ error' = where
    /\ UNCHANGED calls

\* Faulty variants of the handler below: it re-raises without aborting; it
\* swallows the exception and the function returns object_name.
ExceptHandler_noAbort(where) == Raise(where)

ExceptHandler_swallow(where) ==
    /\ pc' = "done"
    /\ outcome' = "returned"
    /\ failedAt' = where
    /\ error' = "none"
    /\ UNCHANGED calls

\* `except Exception as e:` of _multipart_upload (wasabi_client.py:102-109):
\* abort_multipart_upload is invoked and awaited.
ExceptHandler(where) ==
    /\ pc' = "mp_abort"
    /\ calls' = [calls EXCEPT !.abort = @ + 1]
    /\ failedAt' = where
    /\ UNCHANGED <<outcome, error>>

\* wasabi_client.py:26-44: the branch on the declared size.  A file_size of
\* None makes the comparison raise TypeError inside the try block.
UploadFromStream ==
    /\ pc = "start"
    /\ IF file_size = None
       THEN /\ Raise("classify")
            /\ path' = "error"
       ELSE IF UseMultipart(file_size)
       THEN /\ pc' = "mp_create"
            /\ calls' = [calls EXCEPT !.create = @ + 1]
            /\ path' = "chunked"
            /\ UNCHANGED <<outcome, failedAt, error>>
       ELSE /\ pc' = "ss_read"
            /\ path' = "single"
            /\ UNCHANGED <<calls, outcome, failedAt, error>>
    /\ UNCHANGED <<file_size, stream, pos, chunk, parts, part_number, session,
                   storeParts, stored, completeArg, returned>>
    /\ UNCHANGED <<retries, botVars, mediaVars, keyVars, xferVars, progVars, cmdVars>>

\* wasabi_client.py:46: `file_data = await file_stream.read()` returns the
\* whole stream or raises; then put_object is invoked.
SingleReadReturns ==
    /\ pc = "ss_read"
    /\ \/ /\ chunk' = stream - pos
          /\ pos' = stream
          /\ pc' = "ss_put"
          /\ calls' = [calls EXCEPT !.put = @ + 1]
          /\ UNCHANGED <<outcome, failedAt, error>>
       \/ /\ Raise("read")
          /\ UNCHANGED <<chunk, pos>>
    /\ UNCHANGED <<file_size, stream, parts, part_number, session, storeParts,
                   stored, completeArg, returned, path>>
    /\ UNCHANGED <<retries, botVars, mediaVars, keyVars, xferVars, progVars, cmdVars>>

\* wasabi_client.py:47-52: put_object returns (`return object_name`) or raises.
PutObjectReturns ==
    /\ pc = "ss_put"
    /\ \/ /\ stored' = chunk
          /\ returned' = returned \cup {"put"}
          /\ outcome' = "returned"
          /\ pc' = "done"
          /\ UNCHANGED <<calls, failedAt, error>>
       \/ /\ Raise("put")
          /\ UNCHANGED <<stored, returned>>
    /\ UNCHANGED <<file_size, stream, pos, chunk, parts, part_number, session,
                   storeParts, completeArg, path>>
    /\ UNCHANGED <<retries, botVars, mediaVars, keyVars, xferVars, progVars, cmdVars>>

\* create_multipart_upload raises (wasabi_client.py:61-64).  The call stands
\* before the `try:` of line 67, so the handler of line 102 is not entered
\* and the exception leaves through `except Exception: ... raise` of
\* upload_from_stream (lines 54-56).  The first variant, faulty, treats the
\* call as if it stood inside the try block.
CreateFailed_insideTry == ExceptHandler("create")

CreateFailed == Raise("create")

\* wasabi_client.py:60-73: create_multipart_upload returns an UploadId, the
\* try block is entered and the first chunk read is awaited; or it raises,
\* outside the try block, so nothing is aborted.
CreateReturns ==
    /\ pc = "mp_create"
    /\ \/ /\ session' = "Open"
          /\ returned' = returned \cup {"create"}
          /\ parts' = <<>>
          /\ part_number' = 1
          /\ pc' = "mp_read"
          /\ UNCHANGED <<calls, outcome, failedAt, error>>
       \/ /\ CreateFailed
          /\ UNCHANGED <<session, returned, parts, part_number>>
    /\ UNCHANGED <<file_size, stream, pos, chunk, storeParts, stored,
                   completeArg, path>>
    /\ UNCHANGED <<retries, botVars, mediaVars, keyVars, xferVars, progVars, cmdVars>>

\* wasabi_client.py:72-82 and 92-98: the chunk read returns.  A non-empty
\* chunk is sent with upload_part; an empty one breaks the loop and
\* complete_multipart_upload is invoked with `parts`.
ChunkReadReturns ==
    /\ pc = "mp_read"
    /\ \/ LET n == ReadChunk(stream - pos) IN
          /\ chunk' = n
          /\ pos' = pos + n
          /\ IF n = 0
             THEN /\ pc' = "mp_complete"
                  /\ calls' = [calls EXCEPT !.complete = @ + 1]
                  /\ completeArg' = parts
                  /\ UNCHANGED retries
             ELSE /\ pc' = "mp_part"
                  /\ calls' = [calls EXCEPT !.part = @ + 1]
                  /\ retries' = (part_number :> 0) @@ retries
                  /\ UNCHANGED completeArg
          /\ UNCHANGED <<outcome, failedAt, error>>
       \/ /\ ExceptHandler("read")
          /\ UNCHANGED <<chunk, pos, completeArg, retries>>
    /\ UNCHANGED <<file_size, stream, parts, part_number, session, storeParts,
                   stored, returned, path>>
    /\ UNCHANGED <<botVars, mediaVars, keyVars, xferVars, progVars, cmdVars>>

\* retries={'max_attempts': 3, 'mode': 'standard'} (wasabi_client.py:12-16):
\* the client re-sends a request that failed transiently while it has made
\* fewer than max_attempts re-sends of it (the first variant, faulty, allows
\* one more).
CanRetry_oneMore(resent) == resent <= max_attempts

CanRetry(resent) == resent < max_attempts

\* wasabi_client.py:77-83 under the retry configuration of the client: the
\* upload_part in flight failed transiently and the client sends the same
\* request (same PartNumber, same Body) again; the coroutine stays suspended
\* in the same await.  _multipart_upload has no retry loop of its own.
UploadPartRetried ==
    /\ pc = "mp_part"
    /\ CanRetry(retries[part_number])
    /\ retries' = [retries EXCEPT ![part_number] = @ + 1]
    /\ UNCHANGED <<pc, file_size, stream, pos, chunk, parts, part_number,
                   session, storeParts, stored, calls, completeArg, returned,
                   outcome, failedAt, error, path>>
    /\ UNCHANGED <<botVars, mediaVars, keyVars, xferVars, progVars, cmdVars>>

\* wasabi_client.py:77-90: upload_part returns an ETag, the part is recorded
\* and the next chunk read is awaited; or it raises (a fatal error, or a
\* transient one the client does not re-send any more).
UploadPartReturns ==
    /\ pc = "mp_part"
    /\ \/ /\ storeParts' = (part_number :> chunk) @@ storeParts
          /\ parts' = AppendPart(parts, chunk, part_number)
          /\ part_number' = NextPartNumber(part_number)
          /\ pc' = "mp_read"
          /\ UNCHANGED <<calls, outcome, failedAt, error>>
       \/ /\ ExceptHandler("part")
          /\ UNCHANGED <<storeParts, parts, part_number>>
    /\ UNCHANGED <<file_size, stream, pos, chunk, session, stored, completeArg,
                   returned, path>>
    /\ UNCHANGED <<retries, botVars, mediaVars, keyVars, xferVars, progVars, cmdVars>>

\* wasabi_client.py:92-100: complete_multipart_upload returns
\* (`return object_name`) or raises.
CompleteReturns ==
    /\ pc = "mp_complete"
    /\ \/ /\ session' = "Completed"
          /\ stored' = SumETag(completeArg)
          /\ returned' = returned \cup {"complete"}
          /\ outcome' = "returned"
          /\ pc' = "done"
          /\ UNCHANGED <<calls, failedAt, error>>
       \/ /\ ExceptHandler("complete")
          /\ UNCHANGED <<session, stored, returned>>
    /\ UNCHANGED <<file_size, stream, pos, chunk, parts, part_number,
                   storeParts, completeArg, path>>
    /\ UNCHANGED <<retries, botVars, mediaVars, keyVars, xferVars, progVars, cmdVars>>

\* wasabi_client.py:104-109: abort_multipart_upload returns and the original
\* exception is re-raised; or the abort raises and its exception leaves the
\* function with the session still open.
AbortReturns ==
    /\ pc = "mp_abort"
    /\ \/ /\ session' = "Aborted"
          /\ returned' = returned \cup {"abort"}
          /\ error' = failedAt
       \/ /\ error' = "abort"
          /\ UNCHANGED <<session, returned>>
    /\ outcome' = "raised"
    /\ pc' = "done"
    /\ UNCHANGED <<file_size, stream, pos, chunk, parts, part_number,
                   storeParts, stored, calls, completeArg, failedAt, path>>
    /\ UNCHANGED <<retries, botVars, mediaVars, keyVars, xferVars, progVars, cmdVars>>

\* The task running upload_from_stream is cancelled while suspended in an
\* awaited call.  asyncio.CancelledError is a BaseException, so neither
\* `except Exception` (wasabi_client.py:54, 102) handles it: no abort is
\* issued.  The request in flight may or may not have taken effect.
Cancel ==
    /\ pc \in AwaitPoints
    /\ pc' = "done"
    /\ outcome' = "cancelled"
    /\ session' \in CASE pc = "mp_create"   -> {session, "Open"}
                      [] pc = "mp_complete" -> {session, "Completed"}
                      [] pc = "mp_abort"    -> {session, "Aborted"}
                      [] OTHER              -> {session}
    /\ stored' \in CASE pc = "ss_put" -> {stored, chunk}
                     [] pc = "mp_complete" ->
                            IF session' = "Completed"
                            THEN {SumETag(completeArg)} ELSE {stored}
                     [] OTHER -> {stored}
    /\ UNCHANGED <<file_size, stream, pos, chunk, parts, part_number,
                   storeParts, calls, completeArg, returned, failedAt, error,
                   path>>
    /\ UNCHANGED <<retries, botVars, mediaVars, keyVars, xferVars, progVars, cmdVars>>



(* ===================================================================== *)
(*  TelegramWasabiBot.file_handler / handle_direct_upload                 *)
(* ===================================================================== *)

\* Declared sizes of the documents that arrive: at the limit and above it.
DocSizes == {MAX_FILE_SIZE, MAX_FILE_SIZE + 1}

\* BotUtils.is_file_too_large
is_file_too_large(size_bytes) == size_bytes > MAX_FILE_SIZE

\* The task ends: its locals (file_content among them) are released.  Its
\* done callback is scheduled on the event loop and has not run yet.
TaskDone(t) ==
    /\ tpc' = [tpc EXCEPT ![t] = "done"]
    /\ theld' = [theld EXCEPT ![t] = 0]
    /\ UNCHANGED upload_tasks

\* `self.upload_tasks.add(task)` (telegram_bot.py:112).
TasksAdd(set, task) == set \cup {task}

\* `self.upload_tasks.discard` (telegram_bot.py:113; the first variant,
\* faulty, removes nothing).
TasksDiscard_nothing(set, task) == set

TasksDiscard(set, task) == set \ {task}

\* telegram_bot.py:113: the event loop runs the done callback of a task
\* that has ended, however it ended.
DoneCallback(t) ==
    /\ tpc[t] = "done"
    /\ tpc' = [tpc EXCEPT ![t] = "removed"]
    /\ upload_tasks' = TasksDiscard(upload_tasks, t)
    /\ UNCHANGED <<tsize, tmsg, tops, theld>>
    /\ UNCHANGED <<engineVars, mediaVars, keyVars, xferVars, progVars, cmdVars>>

\* The task is cancelled while it is suspended in an awaited call (as the
\* tasks still pending are when the event loop is shut down).
\* asyncio.CancelledError passes the `except Exception` of line 173: the
\* task ends without another message.
TaskCancelled(t) ==
    /\ tpc[t] \in {"reply", "edit_toolarge", "edit_streaming", "download",
                   "edit_dlfail", "edit_error"}
    /\ TaskDone(t)
    /\ UNCHANGED <<tsize, tmsg, tops>>
    /\ UNCHANGED <<engineVars, mediaVars, keyVars, xferVars, progVars, cmdVars>>

\* `except Exception as e:` of handle_direct_upload (telegram_bot.py:173-176):
\* the status message is edited to "Upload failed: <str(e)>".
UploadFailed(t) ==
    /\ tpc' = [tpc EXCEPT ![t] = "edit_error"]
    /\ UNCHANGED <<theld, upload_tasks>>

\* telegram_bot.py:106-117: a message with media arrives; file_handler
\* creates a task for it without waiting for any other, adds it to
\* upload_tasks, and the task replies "Processing file...".
FileHandler(t) ==
    /\ tpc[t] = "none"
    /\ \E size \in DocSizes : tsize' = [tsize EXCEPT ![t] = size]
    /\ tpc' = [tpc EXCEPT ![t] = "reply"]
    /\ upload_tasks' = TasksAdd(upload_tasks, t)
    /\ UNCHANGED <<tmsg, tops, theld>>
    /\ UNCHANGED <<engineVars, mediaVars, keyVars, xferVars, progVars, cmdVars>>

\* telegram_bot.py:117-129: the reply returns and the size is validated, or
\* the media has no `document` (AttributeError, handled at line 173), or the
\* reply raises outside the try block and the task dies.
ReplyReturns(t) ==
    /\ tpc[t] = "reply"
    /\ \/ /\ IF is_file_too_large(tsize[t])
             THEN tpc' = [tpc EXCEPT ![t] = "edit_toolarge"]
             ELSE tpc' = [tpc EXCEPT ![t] = "edit_streaming"]
          /\ tmsg' = [tmsg EXCEPT ![t] = "processing"]
          /\ UNCHANGED <<theld, upload_tasks>>
       \/ /\ UploadFailed(t)
          /\ tmsg' = [tmsg EXCEPT ![t] = "processing"]
       \/ /\ TaskDone(t)
          /\ UNCHANGED tmsg
    /\ UNCHANGED <<tsize, tops>>
    /\ UNCHANGED <<engineVars, mediaVars, keyVars, xferVars, progVars, cmdVars>>

\* telegram_bot.py:126-127: "File too large! Maximum size is <limit>" is
\* shown and the handler returns; or the edit raises.
EditTooLargeReturns(t) ==
    /\ tpc[t] = "edit_toolarge"
    /\ \/ /\ tmsg' = [tmsg EXCEPT ![t] = "too_large_with_limit"]
          /\ TaskDone(t)
       \/ /\ UploadFailed(t)
          /\ UNCHANGED tmsg
    /\ UNCHANGED <<tsize, tops>>
    /\ UNCHANGED <<engineVars, mediaVars, keyVars, xferVars, progVars, cmdVars>>

\* telegram_bot.py:129-138: "Direct streaming to Wasabi..." is shown, the
\* object name is generated and download_media(file=bytes) is invoked; or the
\* edit raises.
EditStreamingReturns(t) ==
    /\ tpc[t] = "edit_streaming"
    /\ \/ /\ tmsg' = [tmsg EXCEPT ![t] = "streaming"]
          /\ tpc' = [tpc EXCEPT ![t] = "download"]
          /\ tops' = [tops EXCEPT ![t] = @ \cup {"download"}]
          /\ UNCHANGED <<theld, upload_tasks>>
       \/ /\ UploadFailed(t)
          /\ UNCHANGED <<tmsg, tops>>
    /\ UNCHANGED tsize
    /\ UNCHANGED <<engineVars, mediaVars, keyVars, xferVars, progVars, cmdVars>>

\* telegram_bot.py:135-138: download_media(file=bytes) returns the whole
\* file as one bytes object, which file_content keeps alive until the
\* handler ends.
DownloadedBytes(size) == size

\* telegram_bot.py:135-176: download_media returns the file's bytes, and
\* `io.BytesIO(file_content)` raises NameError because telegram_bot.py never
\* imports io (handled at line 173, before upload_from_stream is reached);
\* or it returns nothing and "Failed to download file" is shown; or it raises.
DownloadReturns(t) ==
    /\ tpc[t] = "download"
    /\ \/ /\ theld' = [theld EXCEPT ![t] = DownloadedBytes(tsize[t])]
          /\ tops' = [tops EXCEPT ![t] = @ \cup {"downloaded"}]
          /\ tpc' = [tpc EXCEPT ![t] = "edit_error"]
          /\ UNCHANGED upload_tasks
       \/ /\ UploadFailed(t)
          /\ UNCHANGED tops
       \/ /\ tpc' = [tpc EXCEPT ![t] = "edit_dlfail"]
          /\ UNCHANGED <<tops, theld, upload_tasks>>
    /\ UNCHANGED <<tsize, tmsg>>
    /\ UNCHANGED <<engineVars, mediaVars, keyVars, xferVars, progVars, cmdVars>>

\* telegram_bot.py:170-171: "Failed to download file from Telegram." is shown
\* and the handler ends; or the edit raises.
EditDownloadFailedReturns(t) ==
    /\ tpc[t] = "edit_dlfail"
    /\ \/ /\ tmsg' = [tmsg EXCEPT ![t] = "download_failed"]
          /\ TaskDone(t)
       \/ /\ UploadFailed(t)
          /\ UNCHANGED tmsg
    /\ UNCHANGED <<tsize, tops>>
    /\ UNCHANGED <<engineVars, mediaVars, keyVars, xferVars, progVars, cmdVars>>

\* telegram_bot.py:173-176: "Upload failed: <str(e)>" is shown and the
\* handler ends; or this edit raises too and the exception ends the task.
EditErrorReturns(t) ==
    /\ tpc[t] = "edit_error"
    /\ \/ tmsg' = [tmsg EXCEPT ![t] = "upload_failed_with_exception_text"]
       \/ UNCHANGED tmsg
    /\ TaskDone(t)
    /\ UNCHANGED <<tsize, tops>>
    /\ UNCHANGED <<engineVars, mediaVars, keyVars, xferVars, progVars, cmdVars>>

(* ===================================================================== *)
(*  Object names: BotUtils.generate_file_name, upload_from_stream default *)
(* ===================================================================== *)

\* Characters of a display name: a letter, the dot and the path separator.
Alphabet == {"a", ".", "/"}

\* The display names a sender can give a file (DocumentAttributeFilename,
\* telegram_bot.py:178-184): any string, here up to MaxNameLen characters.
Names == UNION {[1..n -> Alphabet] : n \in 0..MaxNameLen}

\* Position of the last '.' in a name, 0 if it has none.
LastDot(name) ==
    LET dots == {i \in DOMAIN name : name[i] = "."} IN
    IF dots = {} THEN 0 ELSE CHOOSE i \in dots : \A j \in dots : j <= i

\* `original_name.split('.')[-1] if '.' in original_name else 'bin'`
\* (utils.py:23): the text after the last dot, untouched.
Extension(original_name) ==
    IF LastDot(original_name) = 0
    THEN <<"b", "i", "n">>
    ELSE SubSeq(original_name, LastDot(original_name) + 1, Len(original_name))

\* `f"{uuid.uuid4()}_{int(time.time())}.{extension}"` (utils.py:24), kept as
\* its three fields; `uuid` is the value uuid4() returned.  The first
\* variant, faulty, leaves the uuid out.
generate_file_name_noUuid(original_name, uuid, time) ==
    [uuid |-> 0, time |-> time, dot |-> TRUE, ext |-> Extension(original_name)]

generate_file_name(original_name, uuid, time) ==
    [uuid |-> uuid, time |-> time, dot |-> TRUE, ext |-> Extension(original_name)]

\* `f"{uuid.uuid4()}_{int(time.time())}"` (wasabi_client.py:28-29), the name
\* upload_from_stream gives an object when it is called without one.
default_object_name(uuid, time) ==
    [uuid |-> uuid, time |-> time, dot |-> FALSE, ext |-> <<>>]

\* handle_direct_upload names the object of its transfer (telegram_bot.py:
\* 131-132).  uuid.uuid4() is taken by its contract: a value that no earlier
\* call returned.  The call does not await, so calls of concurrent tasks
\* happen one after another in any order.
GenerateFileName ==
    /\ Len(keys) < NumKeys
    /\ \E original_name \in Names :
          keys' = Append(keys, generate_file_name(original_name, drawn + 1, clock))
    /\ drawn' = drawn + 1
    /\ UNCHANGED clock
    /\ UNCHANGED <<engineVars, botVars, mediaVars, xferVars, progVars, cmdVars>>

\* upload_from_stream is called with object_name=None (wasabi_client.py:28-29).
DefaultObjectName ==
    /\ Len(keys) < NumKeys
    /\ keys' = Append(keys, default_object_name(drawn + 1, clock))
    /\ drawn' = drawn + 1
    /\ UNCHANGED clock
    /\ UNCHANGED <<engineVars, botVars, mediaVars, xferVars, progVars, cmdVars>>

\* A second passes: int(time.time()) grows by one.
Tick ==
    /\ clock < MaxClock
    /\ clock' = clock + 1
    /\ UNCHANGED <<keys, drawn>>
    /\ UNCHANGED <<engineVars, botVars, mediaVars, xferVars, progVars, cmdVars>>

(* ===================================================================== *)
(*  AsyncWasabiStorage.upload_file (bot.py)                               *)
(* ===================================================================== *)

\* The transfer threads of s3_client.upload_file (max_concurrency, bot.py:72).
Workers == 1..CONCURRENT_TRANSFERS

\* The parts a file of `size` bytes is sent in (multipart_chunksize and
\* multipart_threshold are both CHUNK_SIZE, bot.py:71-73).
FileParts(size) == 1..CeilDiv(size, CHUNK_SIZE)

\* Bytes of part n of a file of `size` bytes.
PartBytes(n, size) == Min(CHUNK_SIZE, size - (n - 1) * CHUNK_SIZE)

\* The closure _upload_progress_callback returns (bot.py:122-126): it logs
\* the bytes_transferred it was called with and keeps no total.
upload_progress_callback(bytes_transferred) == bytes_transferred

\* bot.py:77-96: upload_file returns False for a missing file; otherwise
\* _upload_file_sync is handed to the executor, where s3_client.upload_file
\* splits the file into parts, and the coroutine awaits the executor's
\* future.
UploadFile ==
    /\ upc = "start"
    /\ IF ufile = None
       THEN /\ upc' = "done"
            /\ uresult' = "False"
            /\ UNCHANGED <<upending, uthread>>
       ELSE /\ upc' = "executor"
            /\ upending' = FileParts(ufile)
            /\ uthread' = "running"
            /\ UNCHANGED uresult
    /\ UNCHANGED <<ufile, uworker, ulogged>>
    /\ UNCHANGED <<engineVars, botVars, mediaVars, keyVars, progVars, cmdVars>>

\* bot.py:111-117: an idle transfer thread takes a part that is still to be
\* sent.
WorkerTakesPart(w) ==
    /\ uthread = "running"
    /\ uworker[w] = 0
    /\ \E n \in upending :
          /\ uworker' = [uworker EXCEPT ![w] = n]
          /\ upending' = upending \ {n}
    /\ UNCHANGED <<upc, ufile, ulogged, uresult, uthread>>
    /\ UNCHANGED <<engineVars, botVars, mediaVars, keyVars, progVars, cmdVars>>

\* bot.py:116 and 122-126: the thread has sent the bytes of its part and
\* calls Callback with their number, the amount transferred since the call
\* before, from its own thread.
WorkerCallback(w) ==
    /\ uthread = "running"
    /\ uworker[w] # 0
    /\ ulogged' = upload_progress_callback(PartBytes(uworker[w], ufile))
    /\ uworker' = [uworker EXCEPT ![w] = 0]
    /\ UNCHANGED <<upc, ufile, upending, uresult, uthread>>
    /\ UNCHANGED <<engineVars, botVars, mediaVars, keyVars, progVars, cmdVars>>

\* bot.py:108-117: every part was sent and s3_client.upload_file returns in
\* the executor thread.
SyncUploadReturns ==
    /\ uthread = "running"
    /\ upending = {}
    /\ \A w \in Workers : uworker[w] = 0
    /\ uthread' = "finished"
    /\ UNCHANGED <<upc, ufile, upending, uworker, ulogged, uresult>>
    /\ UNCHANGED <<engineVars, botVars, mediaVars, keyVars, progVars, cmdVars>>

\* bot.py:118-120: s3_client.upload_file raises in the executor thread; the
\* exception is logged and re-raised into the executor's future.
SyncUploadRaises ==
    /\ uthread = "running"
    /\ uthread' = "failed"
    /\ UNCHANGED <<upc, ufile, upending, uworker, ulogged, uresult>>
    /\ UNCHANGED <<engineVars, botVars, mediaVars, keyVars, progVars, cmdVars>>

\* bot.py:91-98: the awaited future holds the thread's return and
\* upload_file returns True.
UploadFileReturns ==
    /\ upc = "executor"
    /\ uthread = "finished"
    /\ upc' = "done"
    /\ uresult' = "True"
    /\ UNCHANGED <<ufile, upending, uworker, ulogged, uthread>>
    /\ UNCHANGED <<engineVars, botVars, mediaVars, keyVars, progVars, cmdVars>>

\* Faulty variant of the action below: the exception leaves upload_file.
UploadFileRaises_propagates ==
    /\ upc = "executor"
    /\ uthread = "failed"
    /\ upc' = "done"
    /\ uresult' = "Exception"
    /\ UNCHANGED <<ufile, upending, uworker, ulogged, uthread>>
    /\ UNCHANGED <<engineVars, botVars, mediaVars, keyVars, progVars, cmdVars>>

\* bot.py:100-106: the awaited future holds the thread's exception; it is
\* caught by `except ClientError` or `except Exception`, logged and turned
\* into False.
UploadFileRaises ==
    /\ upc = "executor"
    /\ uthread = "failed"
    /\ upc' = "done"
    /\ uresult' = "False"
    /\ UNCHANGED <<ufile, upending, uworker, ulogged, uthread>>
    /\ UNCHANGED <<engineVars, botVars, mediaVars, keyVars, progVars, cmdVars>>

\* The task that runs upload_file is cancelled while it awaits the
\* executor's future (bot.py:91).  asyncio.CancelledError is a
\* BaseException: neither handler of lines 100-106 catches it and it leaves
\* upload_file.  The executor thread is not interrupted and goes on with
\* the upload.
UploadFileCancelled ==
    /\ upc = "executor"
    /\ upc' = "done"
    /\ uresult' = "CancelledError"
    /\ UNCHANGED <<ufile, upending, uworker, ulogged, uthread>>
    /\ UNCHANGED <<engineVars, botVars, mediaVars, keyVars, progVars, cmdVars>>

(* ===================================================================== *)
(*  ProgressTracker (bot.py)                                              *)
(* ===================================================================== *)

Abs(x) == IF x < 0 THEN -x ELSE x

\* `(current / total) * 100 if total > 0 else 0` (bot.py:248), kept exact as
\* a number of 1/total percent (of whole percent when total is 0).
Percentage(current, total) == IF total > 0 THEN current * 100 ELSE 0

\* SIGNIFICANT_PERCENT in the unit of Percentage.
Significant(total) == SIGNIFICANT_PERCENT * (IF total > 0 THEN total ELSE 1)

\* The condition of the early return of update_progress (bot.py:251-254).
\* Faulty variants: the interval is a second shorter; the completing call
\* is throttled like any other.
Throttled_shortInterval(current_time, percentage, current, total) ==
    /\ current_time - last_update < THROTTLE_SECONDS - 1
    /\ Abs(percentage - last_percentage) < Significant(total)
    /\ current # total

Throttled_noCompletion(current_time, percentage, current, total) ==
    /\ current_time - last_update < THROTTLE_SECONDS
    /\ Abs(percentage - last_percentage) < Significant(total)

Throttled(current_time, percentage, current, total) ==
    /\ current_time - last_update < THROTTLE_SECONDS
    /\ Abs(percentage - last_percentage) < Significant(total)
    /\ current # total

\* _format_time_remaining (bot.py:297-312): "Calculating..." or the seconds
\* that remain, which the caller formats as s, m or h.  A total of None
\* makes the subtraction raise, and the bare except answers "Calculating...".
format_time_remaining(current, total, elapsed) ==
    IF current = 0 \/ elapsed = 0
    THEN [text |-> "Calculating...", remaining |-> 0]
    ELSE IF total = None
    THEN [text |-> "Calculating...", remaining |-> 0]
    ELSE [text |-> "remaining",
          remaining |-> ((total - current) * elapsed) \div current]

\* The values `current` can take in the next call: the download reports a
\* growing offset, bounded by the size when the size is known.
NextCurrents(current, total) ==
    LET limit == IF total > 0 THEN total ELSE MaxTotal IN
    {c \in current..limit : c - current <= MaxStep \/ c = limit}

\* update_progress(current, total) up to its first await (bot.py:242-271).
\* A total of None makes `total > 0` raise TypeError, which the
\* `except Exception` of line 278 logs.  Otherwise the call returns early
\* when throttled, or records the time and the percentage, builds the text
\* and awaits message.edit_text.
UpdateProgress ==
    /\ ppc = "ready"
    /\ pcalls < MaxCalls
    /\ pcalls' = pcalls + 1
    /\ \E current \in NextCurrents(pcurrent, ptotal) :
          /\ pcurrent' = current
          /\ IF ptotal = None
             THEN /\ presult' = "skipped"
                  /\ UNCHANGED <<ppc, last_update, last_percentage, sent>>
             ELSE LET current_time == now
                      percentage == Percentage(current, ptotal)
                      elapsed == now - start_time
                  IN  IF Throttled(current_time, percentage, current, ptotal)
                      THEN /\ presult' = "throttled"
                           /\ UNCHANGED <<ppc, last_update, last_percentage,
                                          sent>>
                      ELSE /\ last_update' = current_time
                           /\ last_percentage' = percentage
                           /\ sent' = Append(sent,
                                  [time |-> current_time,
                                   current |-> current,
                                   percentage |-> percentage,
                                   eta |-> format_time_remaining(
                                              current, ptotal, elapsed)])
                           /\ ppc' = "edit"
                           /\ presult' = "editing"
    /\ UNCHANGED <<ptotal, now, start_time>>
    /\ UNCHANGED <<engineVars, botVars, mediaVars, keyVars, xferVars, cmdVars>>

\* bot.py:271-279: message.edit_text returns; or it raises an RPCError or
\* another exception, which is logged; or it raises FloodWait and the
\* handler sleeps.
EditTextReturns ==
    /\ ppc = "edit"
    /\ \/ ppc' = "ready" /\ presult' = "sent"
       \/ ppc' = "ready" /\ presult' = "edit_failed"
       \/ ppc' = "sleep" /\ presult' = "flood_wait"
    /\ UNCHANGED <<ptotal, pcurrent, pcalls, now, start_time, last_update,
                   last_percentage, sent>>
    /\ UNCHANGED <<engineVars, botVars, mediaVars, keyVars, xferVars, cmdVars>>

\* bot.py:273-275: `await asyncio.sleep(e.value)` returns.
FloodSleepReturns ==
    /\ ppc = "sleep"
    /\ ppc' = "ready"
    /\ UNCHANGED <<ptotal, pcurrent, pcalls, now, start_time, last_update,
                   last_percentage, presult, sent>>
    /\ UNCHANGED <<engineVars, botVars, mediaVars, keyVars, xferVars, cmdVars>>

\* A second passes.
ProgressTick ==
    /\ ppc # "idle"
    /\ now - start_time < MaxElapsed
    /\ now' = now + 1
    /\ UNCHANGED <<ppc, ptotal, pcurrent, pcalls, start_time, last_update,
                   last_percentage, presult, sent>>
    /\ UNCHANGED <<engineVars, botVars, mediaVars, keyVars, xferVars, cmdVars>>

(* ===================================================================== *)
(*  download_handler (telegram_bot.py)                                    *)
(* ===================================================================== *)

Cmds == 1..NumCmds

\* A coroutine can only be resumed while no call blocks the event-loop
\* thread.
LoopFree == loop_thread = 0

\* telegram_bot.py:72-101: a /download command arrives.  Without a file id
\* the usage text is replied.  Otherwise generate_download_url signs a URL
\* for the key, locally and whatever the store holds (wasabi_client.py:
\* 135-149); with a URL, get_file_info is awaited, which calls
\* sync_client.head_object at once, on the event-loop thread
\* (wasabi_client.py:172-177); without one (signing raised), "File not found
\* or error generating download link." is replied.
DownloadHandler(c) ==
    /\ LoopFree
    /\ dpc[c] = "none"
    /\ \E has_id \in BOOLEAN, exists \in BOOLEAN, download_url \in {"url", "None"} :
          /\ dexists' = [dexists EXCEPT ![c] = exists]
          /\ IF ~has_id
             THEN /\ dpc' = [dpc EXCEPT ![c] = "reply_usage"]
                  /\ UNCHANGED loop_thread
             ELSE IF download_url = "url"
             THEN /\ dpc' = [dpc EXCEPT ![c] = "head_object"]
                  /\ loop_thread' = c
             ELSE /\ dpc' = [dpc EXCEPT ![c] = "reply_nolink"]
                  /\ UNCHANGED loop_thread
    /\ UNCHANGED <<dsize, dmsg>>
    /\ UNCHANGED <<engineVars, botVars, mediaVars, keyVars, xferVars, progVars>>

\* wasabi_client.py:172-186 and telegram_bot.py:85-99: head_object answers
\* and the event-loop thread is released.  For a key the store holds it
\* returns the size, or raises; for any other key it raises (404).  An
\* exception makes get_file_info return None and the size "Unknown".  The
\* "Download Ready!" text with the link is then replied.
HeadObjectReturns(c) ==
    /\ dpc[c] = "head_object"
    /\ loop_thread = c
    /\ loop_thread' = 0
    /\ \/ dexists[c] /\ dsize' = [dsize EXCEPT ![c] = "size"]
       \/ dsize' = [dsize EXCEPT ![c] = "Unknown"]
    /\ dpc' = [dpc EXCEPT ![c] = "reply_ready"]
    /\ UNCHANGED <<dexists, dmsg>>
    /\ UNCHANGED <<engineVars, botVars, mediaVars, keyVars, xferVars, progVars>>

\* The text a reply of download_handler shows (telegram_bot.py:77, 88-99,
\* 101, 104).
ReplyText(at) ==
    CASE at = "reply_usage"  -> "usage"
      [] at = "reply_ready"  -> "download_ready_with_link"
      [] at = "reply_nolink" -> "not_found_or_error"
      [] at = "reply_error"  -> "error_with_exception_text"

\* telegram_bot.py:77-104: an awaited event.reply returns and the handler
\* ends; or it raises, and the except block replies "Error: <str(e)>"; an
\* exception of that reply ends the handler.
CmdReplyReturns(c) ==
    /\ LoopFree
    /\ dpc[c] \in {"reply_usage", "reply_ready", "reply_nolink", "reply_error"}
    /\ \/ /\ dmsg' = [dmsg EXCEPT ![c] = ReplyText(dpc[c])]
          /\ dpc' = [dpc EXCEPT ![c] = "done"]
       \/ /\ dpc' = [dpc EXCEPT ![c] = IF dpc[c] = "reply_error"
                                       THEN "done" ELSE "reply_error"]
          /\ UNCHANGED dmsg
    /\ UNCHANGED <<dexists, dsize, loop_thread>>
    /\ UNCHANGED <<engineVars, botVars, mediaVars, keyVars, xferVars, progVars>>

(* ===================================================================== *)
(*  handle_media_files (bot.py)                                           *)
(* ===================================================================== *)

\* What message.document / .video / .audio / .photo select; "other" is any
\* further media the filter lets through (sticker, voice, ...).
MediaKinds == {"document", "video", "audio", "photo", "other"}

\* bot.py:516-522: the exception handlers of handle_media_files reply
\* "Telegram error!" for an RPCError and "Processing error!" otherwise.
MediaExcept(m, exc) ==
    mpc' = [mpc EXCEPT ![m] = IF exc = "RPCError" THEN "reply_telegram_error"
                                                  ELSE "reply_processing_error"]

\* bot.py:389-421: a media message arrives.  An unsupported kind is answered
\* "Unsupported file type!".  For a supported one line 421 evaluates
\* `self._format_size(file_size)` inside a module-level function: NameError,
\* handled at line 519, before the size check of line 424 is reached.
HandleMediaFiles(m) ==
    /\ mpc[m] = "none"
    /\ \E kind \in MediaKinds, size \in DocSizes :
          /\ mkind' = [mkind EXCEPT ![m] = kind]
          /\ msize' = [msize EXCEPT ![m] = size]
          /\ IF kind = "other"
             THEN mpc' = [mpc EXCEPT ![m] = "reply_unsupported"]
             ELSE MediaExcept(m, "NameError")
    /\ UNCHANGED <<mmsg, mops>>
    /\ UNCHANGED <<engineVars, botVars, keyVars, xferVars, progVars, cmdVars>>

\* bot.py:418-419: the "Unsupported file type!" reply returns and the handler
\* returns; or it raises an RPCError or another exception.
ReplyUnsupportedReturns(m) ==
    /\ mpc[m] = "reply_unsupported"
    /\ \/ /\ mmsg' = [mmsg EXCEPT ![m] = "unsupported"]
          /\ mpc' = [mpc EXCEPT ![m] = "done"]
       \/ /\ \E exc \in {"RPCError", "Exception"} : MediaExcept(m, exc)
          /\ UNCHANGED mmsg
    /\ UNCHANGED <<mkind, msize, mops>>
    /\ UNCHANGED <<engineVars, botVars, keyVars, xferVars, progVars, cmdVars>>

\* bot.py:516-522: the error reply returns, or raises out of the handler.
ReplyErrorReturns(m) ==
    /\ mpc[m] \in {"reply_telegram_error", "reply_processing_error"}
    /\ \/ mmsg' = [mmsg EXCEPT ![m] = IF mpc[m] = "reply_telegram_error"
                                      THEN "telegram_error"
                                      ELSE "processing_error"]
       \/ UNCHANGED mmsg
    /\ mpc' = [mpc EXCEPT ![m] = "done"]
    /\ UNCHANGED <<mkind, msize, mops>>
    /\ UNCHANGED <<engineVars, botVars, keyVars, xferVars, progVars, cmdVars>>

(* ===================================================================== *)
(*  Specifications                                                        *)
(* ===================================================================== *)

Tasks == 1..NumTasks
Msgs == 1..NumMsgs

\* No media message has reached telegram_bot.py.
BotIdle ==
    /\ tpc = [t \in Tasks |-> "none"]
    /\ tsize = [t \in Tasks |-> 0]
    /\ tmsg = [t \in Tasks |-> "none"]
    /\ tops = [t \in Tasks |-> {}]
    /\ theld = [t \in Tasks |-> 0]
    /\ upload_tasks = {}

\* No media message has reached bot.py.
MediaIdle ==
    /\ mpc = [m \in Msgs |-> "none"]
    /\ mkind = [m \in Msgs |-> "none"]
    /\ msize = [m \in Msgs |-> 0]
    /\ mmsg = [m \in Msgs |-> "none"]
    /\ mops = [m \in Msgs |-> {}]

\* ProgressTracker.__init__ (bot.py:235-240): last_update and
\* last_percentage start at 0.  The clock starts THROTTLE_SECONDS after 0:
\* time.time() counts from 1970, so the first call is never within the
\* interval of last_update = 0.
ProgFresh ==
    /\ pcurrent = 0 /\ pcalls = 0
    /\ now = THROTTLE_SECONDS /\ start_time = THROTTLE_SECONDS
    /\ last_update = 0 /\ last_percentage = 0
    /\ presult = "none" /\ sent = <<>>

\* No ProgressTracker exists.
ProgIdle ==
    /\ ppc = "idle" /\ ptotal = 0
    /\ ProgFresh

\* No /download command has arrived.
CmdIdle ==
    /\ dpc = [c \in Cmds |-> "none"]
    /\ dexists = [c \in Cmds |-> FALSE]
    /\ dsize = [c \in Cmds |-> "none"]
    /\ dmsg = [c \in Cmds |-> "none"]
    /\ loop_thread = 0

\* upload_file has not been called.
XferFresh ==
    /\ upending = {}
    /\ uworker = [w \in Workers |-> 0]
    /\ ulogged = None
    /\ uresult = "none"
    /\ uthread = "idle"

XferIdle ==
    /\ upc = "idle" /\ ufile = None
    /\ XferFresh

\* No object name has been generated.
KeysIdle ==
    /\ keys = <<>>
    /\ clock = 0
    /\ drawn = 0

\* upload_from_stream(file_stream, file_size, object_name) is called with a
\* stream of `stream` bytes and a declared size that need not match it.
Init ==
    /\ pc = "start"
    /\ file_size \in {None} \cup (0..MaxSize)
    /\ stream \in 0..MaxSize
    /\ EngineFresh
    /\ BotIdle
    /\ MediaIdle
    /\ KeysIdle
    /\ XferIdle
    /\ ProgIdle
    /\ CmdIdle

Next ==
    \/ UploadFromStream
    \/ SingleReadReturns
    \/ PutObjectReturns
    \/ CreateReturns
    \/ ChunkReadReturns
    \/ UploadPartRetried
    \/ UploadPartReturns
    \/ CompleteReturns
    \/ AbortReturns
    \/ Cancel

Spec == Init /\ [][Next]_vars

\* telegram_bot.py: media messages arrive at any time.
InitBot ==
    /\ EngineIdle
    /\ BotIdle
    /\ MediaIdle
    /\ KeysIdle
    /\ XferIdle
    /\ ProgIdle
    /\ CmdIdle

NextBot ==
    \E t \in Tasks :
        \/ FileHandler(t)
        \/ ReplyReturns(t)
        \/ EditTooLargeReturns(t)
        \/ EditStreamingReturns(t)
        \/ DownloadReturns(t)
        \/ EditDownloadFailedReturns(t)
        \/ EditErrorReturns(t)
        \/ TaskCancelled(t)
        \/ DoneCallback(t)

SpecBot == InitBot /\ [][NextBot]_vars

\* The same handler when only the first NumArrivals media messages arrive:
\* the bookkeeping of self.upload_tasks does not depend on how many tasks
\* run side by side, and the smaller state space is searched exhaustively
\* at larger file sizes.
Arrivals == 1..Min(NumArrivals, NumTasks)

NextArrivals ==
    \E t \in Arrivals :
        \/ FileHandler(t)
        \/ ReplyReturns(t)
        \/ EditTooLargeReturns(t)
        \/ EditStreamingReturns(t)
        \/ DownloadReturns(t)
        \/ EditDownloadFailedReturns(t)
        \/ EditErrorReturns(t)
        \/ TaskCancelled(t)
        \/ DoneCallback(t)

SpecArrivals == InitBot /\ [][NextArrivals]_vars

\* bot.py: media messages arrive at any time.
InitMedia ==
    /\ EngineIdle
    /\ BotIdle
    /\ MediaIdle
    /\ KeysIdle
    /\ XferIdle
    /\ ProgIdle
    /\ CmdIdle

NextMedia ==
    \E m \in Msgs :
        \/ HandleMediaFiles(m)
        \/ ReplyUnsupportedReturns(m)
        \/ ReplyErrorReturns(m)

SpecMedia == InitMedia /\ [][NextMedia]_vars

\* Object names are generated for transfers that arrive at any time.
InitKeys ==
    /\ EngineIdle
    /\ BotIdle
    /\ MediaIdle
    /\ KeysIdle
    /\ XferIdle
    /\ ProgIdle
    /\ CmdIdle

NextKeys ==
    \/ GenerateFileName
    \/ DefaultObjectName
    \/ Tick

SpecKeys == InitKeys /\ [][NextKeys]_vars

\* upload_file(file_path, object_name) is called for a local file of any
\* size, or for a path at which there is no file.
InitXfer ==
    /\ EngineIdle
    /\ BotIdle
    /\ MediaIdle
    /\ KeysIdle
    /\ upc = "start"
    /\ ufile \in {None} \cup (1..MaxSize)
    /\ XferFresh
    /\ ProgIdle
    /\ CmdIdle

NextXfer ==
    \/ UploadFile
    \/ \E w \in Workers : WorkerTakesPart(w)
    \/ \E w \in Workers : WorkerCallback(w)
    \/ SyncUploadReturns
    \/ SyncUploadRaises
    \/ UploadFileReturns
    \/ UploadFileRaises
    \/ UploadFileCancelled

SpecXfer == InitXfer /\ [][NextXfer]_vars

\* A ProgressTracker is created and update_progress is called with a
\* growing `current` and a total that is a size, 0 (unknown) or None.
InitProg ==
    /\ EngineIdle
    /\ BotIdle
    /\ MediaIdle
    /\ KeysIdle
    /\ XferIdle
    /\ ppc = "ready"
    /\ ptotal \in {None, 0, MaxTotal}
    /\ ProgFresh
    /\ CmdIdle

NextProg ==
    \/ UpdateProgress
    \/ EditTextReturns
    \/ FloodSleepReturns
    \/ ProgressTick

SpecProg == InitProg /\ [][NextProg]_vars

\* telegram_bot.py: /download commands arrive at any time.
InitCmd ==
    /\ EngineIdle
    /\ BotIdle
    /\ MediaIdle
    /\ KeysIdle
    /\ XferIdle
    /\ ProgIdle
    /\ CmdIdle

NextCmd ==
    \E c \in Cmds :
        \/ DownloadHandler(c)
        \/ HeadObjectReturns(c)
        \/ CmdReplyReturns(c)

SpecCmd == InitCmd /\ [][NextCmd]_vars


(* ===================================================================== *)
(*  Properties of upload_from_stream (checked under Spec)                 *)
(* ===================================================================== *)

\* The part numbers recorded in a parts list.
PartNumbers(list) == {list[i].PartNumber : i \in DOMAIN list}

\* The multipart session was begun: create_multipart_upload returned an id.
SessionBegun == "create" \in returned

\* C1: in a multipart session that was begun and in which a chunk read or an
\* upload_part raised, abort_multipart_upload has been invoked exactly once
\* and complete_multipart_upload not at all.
C1_AbortOnceNoComplete ==
    (SessionBegun /\ path = "chunked" /\ failedAt \in {"read", "part"})
        => (calls.abort = 1 /\ calls.complete = 0)

\* C1 witness: upload_part of the second part raised, the abort was issued
\* and the function has ended.
C1_Witness ==
    /\ pc = "done"
    /\ SessionBegun
    /\ failedAt = "part"
    /\ Len(parts) = 1
    /\ calls.abort = 1

\* C2 (as claimed): once upload_from_stream has returned or raised, on any
\* exit path (an exception in the abort call itself included), the multipart
\* session it created is Completed or Aborted, never Open.
C2_NoSessionLeftOpen ==
    (pc = "done" /\ outcome \in {"returned", "raised"}) => session \in {"NoSession", "Completed", "Aborted"}

\* C3 (as claimed): a transfer cancelled after some but not all chunks were
\* uploaded has its open multipart session aborted.
C3_CancelAbortsSession ==
    (outcome = "cancelled" /\ SessionBegun /\ Len(parts) >= 1 /\ pos < stream)
        => session = "Aborted"

\* C4: after a successful chunked transfer with N parts the recorded part
\* numbers are exactly 1..N, without gap or duplicate, and the byte lengths
\* of the uploaded chunks add up to the bytes read from the source.
C4_PartsContiguousAndSum ==
    (outcome = "returned" /\ path = "chunked")
        => /\ PartNumbers(parts) = 1..Len(parts)
           /\ Cardinality(PartNumbers(parts)) = Len(parts)
           /\ DOMAIN storeParts = 1..Len(parts)
           /\ SumETag(parts) = pos

\* C4 witness: a chunked transfer of three parts has succeeded.
C4_Witness ==
    /\ outcome = "returned"
    /\ path = "chunked"
    /\ Len(parts) = 3
    /\ pos = stream

\* C5: whenever complete_multipart_upload has been invoked, the list passed
\* to it is in strictly ascending contiguous part-number order from 1, and
\* upload_part has returned for every part in it.
C5_CompleteArgSortedUploaded ==
    calls.complete >= 1
        => \A i \in DOMAIN completeArg :
              /\ completeArg[i].PartNumber = i
              /\ i \in DOMAIN storeParts
              /\ storeParts[i] = completeArg[i].ETag

\* C5 witness: complete_multipart_upload is in flight with two or more parts.
C5_Witness ==
    /\ pc = "mp_complete"
    /\ calls.complete = 1
    /\ Len(completeArg) >= 2

C9_Atomic ==
    /\ outcome = "returned"
          => \/ (path = "single" /\ "put" \in returned)
             \/ (path = "chunked" /\ "complete" \in returned)
    /\ failedAt # "none" => outcome # "returned"

\* C9 witness: the finalize step raised after parts were uploaded, and the
\* function ended by raising.
C9_Witness ==
    /\ pc = "done"
    /\ failedAt = "complete"
    /\ Len(parts) >= 2
    /\ outcome = "raised"


(* ===================================================================== *)
(*  Properties of the handlers (checked under SpecBot and SpecMedia)      *)
(* ===================================================================== *)

\* C8 (as claimed): every inbound file whose declared size exceeds the
\* configured maximum ends Rejected with the message that names the limit,
\* and no download and no store operation is performed for it.
C8_OversizeRejected ==
    \A m \in Msgs :
        (mpc[m] = "done" /\ mkind[m] # "other" /\ msize[m] > MAX_FILE_SIZE)
            => (mmsg[m] = "too_large_with_limit" /\ mops[m] = {})

\* C10 (as claimed): the number of whole-file transfers that are in the
\* Transferring state at once never exceeds the configured limit.
C10_TransfersBounded ==
    Cardinality({t \in Tasks : tpc[t] \in {"edit_streaming", "download"}})
        <= MAX_CONCURRENT_DOWNLOADS

\* C11 (as claimed): during any transfer the file data a relay task holds at
\* once is bounded by chunk size x chunk concurrency; the chunk loop of
\* _multipart_upload (wasabi_client.py:72-90) has one chunk in flight, so
\* the bound is one chunk.
C11_HeldDataBounded ==
    \A t \in Tasks : theld[t] <= CHUNK_SIZE * 1

\* C12 (as claimed): when a chunked transfer fails and the abort call fails
\* too, the error that leaves _multipart_upload is the original failure, not
\* the abort's.
C12_AbortFailureNotPropagated ==
    (pc = "done" /\ outcome = "raised" /\ calls.abort > 0)
        => error = failedAt

C15_NoExceptionText ==
    \A t \in Tasks : tmsg[t] # "upload_failed_with_exception_text"

\* C16: on every failure path of a chunked transfer whose session was begun,
\* the exception leaves upload_from_stream (only then can its caller produce
\* the failure message) by the step that ends the awaited
\* abort_multipart_upload: the abort was invoked before.
C16_AbortBeforeFailureSurfaces ==
    [][(SessionBegun /\ outcome = "running" /\ outcome' = "raised")
          => (pc = "mp_abort" /\ calls.abort = 1)]_vars

\* C16 witness: the finalize step raised, the abort returned and the
\* exception has left the function.
C16_Witness ==
    /\ outcome = "raised"
    /\ failedAt = "complete"
    /\ "abort" \in returned
    /\ session = "Aborted"

\* C26: when create_multipart_upload itself fails, the transfer has issued
\* no upload_part, no complete_multipart_upload and no
\* abort_multipart_upload call, and the failure of the create call is the
\* exception that leaves upload_from_stream.
C26_CreateFailureIssuesNoCall ==
    failedAt = "create" =>
        /\ calls.create = 1
        /\ calls.part = 0 /\ calls.complete = 0 /\ calls.abort = 0
        /\ pc = "done" /\ outcome = "raised" /\ error = "create"
        /\ DOMAIN storeParts = {} /\ stored = None

\* C26 witness: a transfer above the chunk threshold whose create call
\* raised has ended.
C26_Witness ==
    /\ failedAt = "create"
    /\ path = "chunked"
    /\ file_size > CHUNK_SIZE
    /\ outcome = "raised"

\* C27 (as claimed): complete_multipart_upload is never invoked with an
\* empty parts list, and a chunked transfer whose stream delivered fewer
\* bytes than the declared size does not finalize an object.
C27_NoEmptyOrShortFinalize ==
    /\ calls.complete > 0 => Len(completeArg) > 0
    /\ (path = "chunked" /\ session = "Completed") => stored = file_size

(* ===================================================================== *)
(*  Properties of the object names (checked under SpecKeys)               *)
(* ===================================================================== *)

\* C18: any two transfers get different object names, the transfers of
\* identically named files within the same second included.
C18_KeysDistinct ==
    \A i, j \in DOMAIN keys : i # j => keys[i] # keys[j]

\* C18 witness: two names were generated within the same second for files
\* with the same extension.
C18_Witness ==
    \E i, j \in DOMAIN keys :
        /\ i < j
        /\ keys[i].dot /\ keys[j].dot
        /\ keys[i].time = keys[j].time
        /\ keys[i].ext = keys[j].ext

\* A string holds the path separator or the traversal sequence "..".
HasPathSyntax(str) ==
    \/ \E i \in DOMAIN str : str[i] = "/"
    \/ \E i \in DOMAIN str : i + 1 \in DOMAIN str /\ str[i] = "." /\ str[i + 1] = "."

\* C19 (as claimed): the part of an object name that is taken from the
\* sender's display name holds no path separator and no traversal sequence.
C19_NoPathSyntaxInKey ==
    \A i \in DOMAIN keys : ~HasPathSyntax(keys[i].ext)

(* ===================================================================== *)
(*  Properties of upload_file (checked under SpecXfer)                    *)
(* ===================================================================== *)

\* C20 (as claimed): when a transfer of a file of known size has succeeded,
\* the bytes-transferred count that the progress accounting reported last
\* equals the size of the file, whatever the number of transfer threads and
\* the order of their callbacks.
C20_FinalCountIsSize ==
    (upc = "done" /\ uresult = "True") => ulogged = ufile

NotCompletion(i) == sent[i].current # ptotal

\* C21 (as claimed): between any two consecutive notifications that are not
\* the completion notification at least THROTTLE_SECONDS have elapsed.
C21_ThrottledByTimeOnly ==
    \A i \in DOMAIN sent :
        (i > 1 /\ NotCompletion(i - 1) /\ NotCompletion(i))
            => sent[i].time - sent[i - 1].time >= THROTTLE_SECONDS

\* C21 (amended): between any two consecutive notifications that are not
\* the completion notification, at least THROTTLE_SECONDS have elapsed or
\* the percentage has changed by at least SIGNIFICANT_PERCENT.
C21_Throttled ==
    \A i \in DOMAIN sent :
        (i > 1 /\ NotCompletion(i - 1) /\ NotCompletion(i))
            => \/ sent[i].time - sent[i - 1].time >= THROTTLE_SECONDS
               \/ Abs(sent[i].percentage - sent[i - 1].percentage)
                      >= Significant(ptotal)

\* C21 witness: a call was throttled, and a later one, with the percentage
\* still within SIGNIFICANT_PERCENT of the one notified last, was notified
\* once the interval had passed.
C21_Witness ==
    /\ pcalls = 3
    /\ Len(sent) = 2
    /\ NotCompletion(1) /\ NotCompletion(2)
    /\ sent[2].time - sent[1].time >= THROTTLE_SECONDS
    /\ Abs(sent[2].percentage - sent[1].percentage) < Significant(ptotal)

\* C22: whenever update_progress is called with current equal to total, the
\* call gets as far as message.edit_text, however recent the notification
\* before it.
C22_CompletionNotified ==
    (pcalls > 0 /\ pcurrent = ptotal)
        => /\ presult \in {"editing", "sent", "edit_failed", "flood_wait"}
           /\ sent # <<>>
           /\ sent[Len(sent)].current = ptotal

\* C22 witness: the completion was notified in the same second as the
\* notification before it, with less than SIGNIFICANT_PERCENT between them.
C22_Witness ==
    /\ ptotal > 0
    /\ Len(sent) >= 2
    /\ sent[Len(sent)].current = ptotal
    /\ sent[Len(sent)].time = sent[Len(sent) - 1].time
    /\ Abs(sent[Len(sent)].percentage - sent[Len(sent) - 1].percentage)
           < Significant(ptotal)

\* C23 (as claimed): a notification built for current = 0 or for a total
\* that is absent or 0 shows "Calculating..." and no negative remaining
\* time.
C23_IndeterminateEta ==
    \A i \in DOMAIN sent :
        (sent[i].current = 0 \/ ptotal \in {None, 0})
            => (sent[i].eta.text = "Calculating..." /\ sent[i].eta.remaining >= 0)

(* ===================================================================== *)
(*  Properties of download_handler (checked under SpecCmd)                *)
(* ===================================================================== *)

\* C24 (as claimed): no store call runs on the event-loop thread, so a
\* handler that waits on the store never keeps the others from being
\* resumed.
C24_NoStoreCallOnLoopThread ==
    \A c \in Cmds : dpc[c] = "head_object" => LoopFree

\* C29 (as claimed): a /download command is answered with a link only for a
\* key that exists in the store, and with not-found and no link for a key
\* that does not.
C29_LinkOnlyForExistingKey ==
    \A c \in Cmds :
        /\ dmsg[c] = "download_ready_with_link" => dexists[c]
        /\ (dpc[c] = "done" /\ dmsg[c] \notin {"none", "usage", "error_with_exception_text"}
               /\ ~dexists[c])
              => dmsg[c] = "not_found_or_error"

(* ===================================================================== *)
(*  Properties of handle_direct_upload (checked under SpecBot)            *)
(* ===================================================================== *)

\* C25 (as claimed, the part a finite run refutes): a transfer of an
\* accepted file whose download returned the file, which no store call
\* failed and whose last message the chat transport delivered, ends with
\* the success message that carries the link.
C25_AcceptedReachesLinkIssued ==
    \A t \in Tasks :
        (tpc[t] \in {"done", "removed"} /\ ~is_file_too_large(tsize[t])
            /\ "downloaded" \in tops[t] /\ tmsg[t] # "streaming")
            => tmsg[t] = "upload_successful_with_link"

\* C28 (as claimed): in every state self.upload_tasks holds exactly the
\* tasks that were started and have not finished yet.
C28_ExactlyUnfinished ==
    upload_tasks = {t \in Tasks : tpc[t] \notin {"none", "done", "removed"}}

\* C28 (amended): in every state self.upload_tasks holds every started task
\* that has not finished, and besides them only finished tasks whose done
\* callback the event loop has not run yet; a task never started is not in
\* it, and a task whose done callback has run is not in it, so the set is
\* empty once every task has ended and every done callback has run.
C28_UnfinishedOrCallbackPending ==
    upload_tasks = {t \in Tasks : tpc[t] \notin {"none", "removed"}}

\* C28 witness: one task ended after its failure was reported and its
\* callback removed it, while another is still downloading and is the only
\* member of the set.
C28_Witness ==
    \E t1, t2 \in Tasks :
        /\ tpc[t1] = "removed" /\ tmsg[t1] = "upload_failed_with_exception_text"
        /\ tpc[t2] = "download"
        /\ upload_tasks = {t2}

=============================================================================
